---- MODULE Spec2Model ----
(***************************************************************************)
(* State-machine model of the chat session controller of                   *)
(* src/src/components/ChatInterface.tsx: the sendMessage flow with its     *)
(* suspension points (storage write, chat call, stream chunks, video       *)
(* call), the two message logs, the pending attachment collection and the  *)
(* error timer.                                                            *)
(*                                                                         *)
(* Strings are sequences of tokens; the token " " is whitespace.  Message  *)
(* objects live in a heap because the code shares one object between the   *)
(* display log and the API log and mutates it in place.                    *)
(***************************************************************************)
EXTENDS Integers, Sequences, FiniteSets, TLC

(* ---------------------------------------------------------------- bounds *)
MaxSends == 2
MaxChunks == 2
MaxAttachments == 2
MaxBatch == 2
\* longest array content the Response Normalizer is probed with
MaxParts == 2
\* sends and calls of cleanupSessionFiles in the specification of the cleanup
MaxCleanupSends == 1
MaxCleanups == 2
\* sends in the specification of the thrown values
MaxCatchSends == 1
\* attachment ids and sends in the specification of the attachment collection
MaxAttachIds == 5
MaxAttachSends == 1

(* --------------------------------------------------- program constants *)
maxSize == 10485760
maxCount == 5
allowedTypes ==
  { "image/jpeg", "image/jpg", "image/png", "image/gif", "image/webp",
    "image/svg+xml", "application/pdf", "application/msword",
    "application/vnd.openxmlformats-officedocument.wordprocessingml.document",
    "text/plain", "text/markdown" }

(* ------------------------------------------------- inputs of the model *)
InputTexts == { <<>>, <<" ">>, <<" ", "hi", " ">> }

Files ==
  { [name |-> "cat.png",   type |-> "image/png",                size |-> 1024],
    [name |-> "notes.txt", type |-> "text/plain",               size |-> 10],
    [name |-> "tool.exe",  type |-> "application/x-msdownload", size |-> 10],
    [name |-> "big.pdf",   type |-> "application/pdf",          size |-> 10485761] }

FileBatches == UNION { [1..n -> Files] : n \in 1..MaxBatch }

ModelIds == { "gpt-4o", "video-generation" }

\* the storage capability names every written file afresh; <<>> is "no path"
NoPath == <<>>

PathOfWrite(n) == << "/tmp/claude_upload_", n >>

VideoUrls == { "blob:video" }

NativeError(m) == [t |-> "Error", message |-> m, nested |-> <<>>, raw |-> <<>>]

ThrownValues == { NativeError(<<"rate limited">>) }

\* the i-th chunk of a streamed response: strings and { text } objects alternate
ChunkWords == << "Hel", "lo, ", "world", "!" >>

ChunkAt(i) ==
  LET w == << ChunkWords[((i - 1) % Len(ChunkWords)) + 1] >> IN
  IF i % 2 = 1 THEN [t |-> "string", s |-> w,    text |-> <<>>]
               ELSE [t |-> "object", s |-> <<>>, text |-> w]

StreamResponse == [t |-> "stream"]

\* JavaScript values a capability can hand back: null or undefined, a string,
\* a non-zero number, an array, or an object ("object", "payload") whose
\* record fields are its properties
Undefined == [t |-> "null"]

JsNumber == [t |-> "number"]

JsString(s) == [t |-> "string", s |-> s]

JsArray(items) == [t |-> "array", items |-> items]

IsObject(v) == v.t \in { "object", "payload" }

\* v[f], undefined where v has no such property
Get(v, f) == IF IsObject(v) /\ f \in DOMAIN v THEN v[f] ELSE Undefined

Truthy(v) == ~ (v.t = "null" \/ (v.t = "string" /\ v.s = <<>>))

PayloadResponses ==
  { [t |-> "payload",
     message |-> [t |-> "object", content |-> [t |-> "string", s |-> <<"Hi">>]]],
    [t |-> "payload",
     message |-> [t |-> "object",
                  content |-> [t |-> "array",
                               items |-> << [t |-> "object", text |-> JsString(<<"A">>)],
                                            [t |-> "object", text |-> JsString(<<"B">>)] >>]]] }

ChatResponses == { StreamResponse } \cup PayloadResponses

(* ------------------------------------------------------------- strings *)
RECURSIVE TrimStart(_)
TrimStart(s) ==
  IF s # <<>> /\ Head(s) = " " THEN TrimStart(Tail(s)) ELSE s

RECURSIVE TrimEnd(_)
TrimEnd(s) ==
  IF s # <<>> /\ s[Len(s)] = " " THEN TrimEnd(SubSeq(s, 1, Len(s) - 1)) ELSE s

Trim(s) == TrimEnd(TrimStart(s))

(* ------------------------------------------------------- message values *)
StrContent(s) == [t |-> "string", s |-> s]

PartsContent(p) == [t |-> "parts", parts |-> p]

FilePart(path) == [type |-> "file", puter_path |-> path, text |-> <<>>]

TextPart(text) == [type |-> "text", puter_path |-> NoPath, text |-> text]

Message(role, content, isStreaming, atts, videoUrl) ==
  [role |-> role, content |-> content, isStreaming |-> isStreaming,
   attachments |-> atts, videoUrl |-> videoUrl]

VARIABLES
  messages,      \* display log: sequence of object ids (useState messages)
  conversation,  \* API log: sequence of object ids (conversationRef.current)
  heap,          \* message objects by id <<send, kind>>
  input,         \* text of the input field
  attachments,   \* pending attachment collection
  status,        \* "ready" | "thinking" | "error"
  sessionFiles,  \* sessionFilesRef.current
  timers,        \* pending setTimeout(() => setStatus('ready'), 3000) callbacks
  flows,         \* one record per accepted sendMessage call
  puterLoaded,   \* window.puter is present
  fsPresent,     \* window.puter.fs is present
  modelId,       \* model.id of the mounted ChatInterface
  nextAttId,     \* attachments created so far + 1
  guardRejected, \* the last handler step was a sendMessage stopped by its guard
  mounted,       \* the ChatInterface is mounted (the user has not gone back)
  cleanups,      \* one record per cleanupSessionFiles call
  deleteCalls,   \* path -> number of puter.fs.delete calls issued for it
  probe,         \* argument and result of a pure function under test
  revoked        \* preview URLs handed to URL.revokeObjectURL

vars == << messages, conversation, heap, input, attachments, status,
           sessionFiles, timers, flows, puterLoaded, fsPresent, modelId,
           nextAttId, guardRejected, mounted, cleanups, deleteCalls, probe,
           revoked >>

(* ----------------------------------------------------------- attachments *)
createAttachment(file, id) ==
  [id |-> id, hasFile |-> TRUE, name |-> file.name, size |-> file.size,
   type |-> file.type,
   isImage |-> file.type \in { "image/jpeg", "image/jpg", "image/png",
                               "image/gif", "image/webp", "image/svg+xml" },
   previewUrl |-> IF file.type \in { "image/jpeg", "image/jpg", "image/png",
                                     "image/gif", "image/webp", "image/svg+xml" }
                  THEN id ELSE 0,
   uploadProgress |-> 0, puterPath |-> NoPath]

\* faulty variant of validateFile: the size is not tested
validateFile_noSize(file, currentCount) ==
  IF file.type \notin allowedTypes THEN "type"
  ELSE IF currentCount >= maxCount THEN "count"
  ELSE "ok"

\* faulty variant of validateFile: the count ceiling is off by one
validateFile_offByOne(file, currentCount) ==
  IF file.type \notin allowedTypes THEN "type"
  ELSE IF file.size > maxSize THEN "size"
  ELSE IF currentCount > maxCount THEN "count"
  ELSE "ok"

validateFile(file, currentCount) ==
  IF file.type \notin allowedTypes THEN "type"
  ELSE IF file.size > maxSize THEN "size"
  ELSE IF currentCount >= maxCount THEN "count"
  ELSE "ok"

RECURSIVE Additions(_, _, _)
Additions(fileArray, runningCount, id) ==
  IF fileArray = <<>> THEN <<>>
  ELSE IF validateFile(Head(fileArray), runningCount) # "ok"
       THEN Additions(Tail(fileArray), runningCount, id)
       ELSE << createAttachment(Head(fileArray), id) >>
            \o Additions(Tail(fileArray), runningCount + 1, id + 1)

sanitizeAttachments(items) ==
  [i \in 1..Len(items) |->
     [items[i] EXCEPT !.hasFile = FALSE, !.uploadProgress = 0]]

RECURSIVE FileParts(_)
FileParts(uploaded) ==
  IF uploaded = <<>> THEN <<>>
  ELSE IF Head(uploaded).puterPath # NoPath
       THEN << FilePart(Head(uploaded).puterPath) >> \o FileParts(Tail(uploaded))
       ELSE FileParts(Tail(uploaded))

\* faulty variant of buildUserMessageContent: the text part comes first
buildUserMessageContent_textFirst(text, uploaded) ==
  IF uploaded = <<>> THEN StrContent(text)
  ELSE PartsContent((IF text # <<>> THEN << TextPart(text) >> ELSE <<>>)
                    \o FileParts(uploaded))

buildUserMessageContent(text, uploaded) ==
  IF uploaded = <<>> THEN StrContent(text)
  ELSE PartsContent(FileParts(uploaded)
                    \o (IF text # <<>> THEN << TextPart(text) >> ELSE <<>>))

(* ------------------------------------------------------------ responses *)
isAsyncIterable(response) == response.t = "stream"

ChunkText(part) == IF part.t = "string" THEN part.s ELSE part.text

extractContent(response) ==
  LET message == response.message IN
  IF message.t = "undefined" THEN <<"No response.">>
  ELSE IF message.t = "string" THEN message.s
  ELSE IF message.content.t = "string" THEN message.content.s
  ELSE IF /\ message.content.t = "array"
          /\ message.content.items # <<>>
          /\ Truthy(Get(message.content.items[1], "text"))
       THEN message.content.items[1].text.s
  ELSE IF message.content.t = "object" THEN message.content.text
  ELSE <<"No response.">>

\* one element of an array content (lines 56-61)
PartText(item) ==
  IF ~ Truthy(item) THEN <<>>
  ELSE IF item.t = "string" THEN item.s
  ELSE IF Get(item, "text").t = "string" THEN Get(item, "text").s
  ELSE <<>>

RECURSIVE JoinParts(_)
JoinParts(items) ==
  IF items = <<>> THEN <<>>
  ELSE PartText(Head(items)) \o JoinParts(Tail(items))

\* faulty variant of extractResponseText: the message is looked at before
\* the payload's own text
extractResponseText_messageFirst(payload) ==
  IF ~ Truthy(payload) THEN JsString(<<>>)
  ELSE IF payload.t = "string" THEN payload
  ELSE
    LET message == IF Get(payload, "message").t = "null"
                   THEN payload ELSE Get(payload, "message")
        content == Get(message, "content")
    IN
    IF message.t = "string" THEN message
    ELSE IF Get(payload, "text").t = "string" THEN Get(payload, "text")
    ELSE IF content.t = "string" THEN content
    ELSE IF content.t = "array" THEN JsString(JoinParts(content.items))
    ELSE IF IsObject(content) /\ "text" \in DOMAIN content
         THEN IF content.text.t = "null" THEN JsString(<<>>) ELSE content.text
    ELSE JsString(<<>>)

extractResponseText(payload) ==
  IF ~ Truthy(payload) THEN JsString(<<>>)
  ELSE IF payload.t = "string" THEN payload
  ELSE IF Get(payload, "text").t = "string" THEN Get(payload, "text")
  ELSE
    LET message == IF Get(payload, "message").t = "null"
                   THEN payload ELSE Get(payload, "message")
        content == Get(message, "content")
    IN
    IF message.t = "string" THEN message
    ELSE IF content.t = "string" THEN content
    ELSE IF content.t = "array" THEN JsString(JoinParts(content.items))
    ELSE IF IsObject(content) /\ "text" \in DOMAIN content
         THEN IF content.text.t = "null" THEN JsString(<<>>) ELSE content.text
    ELSE JsString(<<>>)

(* A thrown value: t is "Error" for a native error, "object" for another  *)
(* object (null included), "circular" for an object JSON.stringify throws  *)
(* on, "string", or "other"; message and nested are its message and        *)
(* error.message properties (<<>> when missing or empty), raw its JSON     *)
(* text or, for a string, the string itself.                               *)

\* faulty variant of ErrorText: the generic message goes before the nested one
ErrorText_messageFirst(error) ==
  IF error.t = "Error" THEN error.message
  ELSE IF error.t \in { "object", "circular" } /\ error.message # <<>>
       THEN error.message
  ELSE IF error.t \in { "object", "circular" } /\ error.nested # <<>>
       THEN error.nested
  ELSE IF error.t = "object" THEN error.raw
  ELSE IF error.t = "circular" THEN <<"Unknown error object">>
  ELSE IF error.t = "string" THEN error.raw
  ELSE <<"Failed to get response">>

ErrorText(error) ==
  IF error.t = "Error" THEN error.message
  ELSE IF error.t \in { "object", "circular" } /\ error.nested # <<>>
       THEN error.nested
  ELSE IF error.t \in { "object", "circular" } /\ error.message # <<>>
       THEN error.message
  ELSE IF error.t = "object" THEN error.raw
  ELSE IF error.t = "circular" THEN <<"Unknown error object">>
  ELSE IF error.t = "string" THEN error.raw
  ELSE <<"Failed to get response">>

ErrorMessage(error) ==
  Message("assistant", StrContent(<<"Error: ">> \o ErrorText(error)),
          FALSE, <<>>, "")

(* ---------------------------------------------------------------- guard *)
\* faulty variant of SendGuard: the input is tested without trimming
SendGuard_noTrim ==
  ~ (status = "thinking" \/ (input = <<>> /\ Len(attachments) = 0))

SendGuard ==
  ~ (status = "thinking" \/ (Trim(input) = <<>> /\ Len(attachments) = 0))

(* ---------------------------------------------------------------- flows *)
NoError == [t |-> "none", message |-> <<>>, nested |-> <<>>, raw |-> <<>>]

NoResponse == [t |-> "none"]

\* The locals of one sendMessage call (textToSend, attachmentsToSend, uploaded,
\* fullContent, isFirstChunk) and its position pc.  The other fields record
\* history for the properties: convBefore is the API log when the call
\* started, writes the paths the storage writes returned, chunks the parts
\* the stream delivered, chatArg the log handed to the chat capability, nChat
\* the number of chat calls, nVideo the number of video calls, response the
\* value the chat call resolved with, thrown and failedAt the caught value
\* and the suspension point it was caught at.
NewFlow(textToSend, attachmentsToSend) ==
  [pc |-> "start", textToSend |-> textToSend,
   attachmentsToSend |-> attachmentsToSend,
   upIdx |-> 0, uploaded |-> <<>>, fullContent |-> <<>>,
   isFirstChunk |-> TRUE, streaming |-> FALSE, thrown |-> NoError, failedAt |-> "",
   videoPrompt |-> <<>>, inputReference |-> FALSE,
   convBefore |-> conversation,
   writes |-> <<>>, chunks |-> <<>>, chatArg |-> <<>>, nChat |-> 0,
   nVideo |-> 0, response |-> NoResponse]

InFlight(k) == flows[k].pc \in { "write", "chat", "stream", "vid" }

Last(s) == s[Len(s)]

ReplaceLast(s, x) == [s EXCEPT ![Len(s)] = x]

\* index of the first attachment at or after i that still has a local file
RECURSIVE NextLocal(_, _)
NextLocal(files, i) ==
  IF i > Len(files) THEN i
  ELSE IF files[i].hasFile THEN i
  ELSE NextLocal(files, i + 1)

userMessageDisplay(textToSend, attachmentsToSend) ==
  LET displayAttachments == sanitizeAttachments(attachmentsToSend) IN
  Message("user",
          StrContent(IF textToSend # <<>> THEN textToSend
                     ELSE IF Len(displayAttachments) # 0 THEN <<"[Attachment]">>
                     ELSE <<>>),
          FALSE, displayAttachments, "")

userMessageForApi(textToSend, uploadedFiles) ==
  Message("user", buildUserMessageContent(textToSend, uploadedFiles),
          FALSE, <<>>, "")

\* faulty variant of videoPromptOf: the last attachment names the video
videoPromptOf_lastName(textToSend, attachmentsToSend) ==
  IF textToSend # <<>> THEN textToSend
  ELSE IF Len(attachmentsToSend) > 0
          /\ attachmentsToSend[Len(attachmentsToSend)].name # ""
       THEN << "Video based on ", attachmentsToSend[Len(attachmentsToSend)].name >>
       ELSE << "Generate a video" >>

videoPromptOf(textToSend, attachmentsToSend) ==
  IF textToSend # <<>> THEN textToSend
  ELSE IF Len(attachmentsToSend) > 0 /\ attachmentsToSend[1].name # ""
       THEN << "Video based on ", attachmentsToSend[1].name >>
       ELSE << "Generate a video" >>

StatusOnFirstChunk(isFirstChunk, current) ==
  IF isFirstChunk THEN "ready" ELSE current

\* faulty variant of StatusAfterCatch: the status stays thinking
StatusAfterCatch_thinking == "thinking"

StatusAfterCatch == "error"

StatusAfterTimer == "ready"

\* no pure function is under test
NoProbe == [op |-> "none", done |-> TRUE]

(* ---------------------------------------------------------------- Init *)
Init ==
  /\ messages = <<>>
  /\ conversation = <<>>
  /\ heap = << >>
  /\ input = <<>>
  /\ attachments = <<>>
  /\ status = "ready"
  /\ sessionFiles = {}
  /\ timers = 0
  /\ flows = <<>>
  /\ puterLoaded \in BOOLEAN
  /\ fsPresent \in BOOLEAN
  /\ puterLoaded = FALSE => fsPresent = FALSE
  /\ modelId \in ModelIds
  /\ nextAttId = 1
  /\ guardRejected = FALSE
  /\ mounted = TRUE
  /\ cleanups = <<>>
  /\ deleteCalls = << >>
  /\ probe = NoProbe
  /\ revoked = {}

(* ------------------------------------------------------ user operations *)
\* onChange of the textarea: setInput(e.target.value)
SetInput(t) ==
  /\ mounted
  /\ t # input
  /\ input' = t
  /\ guardRejected' = FALSE
  /\ UNCHANGED << mounted, cleanups, deleteCalls, probe, revoked >>
  /\ UNCHANGED << messages, conversation, heap, attachments, status,
                  sessionFiles, timers, flows, puterLoaded, fsPresent,
                  modelId, nextAttId >>

\* lines 323-356, while no more than maxId attachments have been created
addAttachmentsWithin(files, maxId) ==
  LET additions == Additions(files, Len(attachments), nextAttId) IN
  /\ mounted
  /\ nextAttId + Len(additions) - 1 <= maxId
  /\ attachments' = IF Len(additions) = 0 THEN attachments
                    ELSE attachments \o additions
  /\ nextAttId' = nextAttId + Len(additions)
  /\ guardRejected' = FALSE
  /\ UNCHANGED << mounted, cleanups, deleteCalls, probe, revoked >>
  /\ UNCHANGED << messages, conversation, heap, input, status, sessionFiles,
                  timers, flows, puterLoaded, fsPresent, modelId >>

addAttachments(files) == addAttachmentsWithin(files, MaxAttachments)

\* the preview URLs removeAttachment(id) releases (lines 360-363)
RevokedBy(id) ==
  { attachments[i].previewUrl :
      i \in { j \in 1..Len(attachments) :
                /\ attachments[j].id = id
                /\ attachments[j].previewUrl # 0
                /\ \A h \in 1..(j - 1) : attachments[h].id # id } }

\* faulty variant of WithoutAttachment: everything from the attachment on is
\* dropped
WithoutAttachment_truncated(prev, id) ==
  IF \E i \in 1..Len(prev) : prev[i].id = id
  THEN SubSeq(prev, 1, (CHOOSE i \in 1..Len(prev) : prev[i].id = id) - 1)
  ELSE prev

\* line 364: prev.filter(att => att.id !== id)
WithoutAttachment(prev, id) == SelectSeq(prev, LAMBDA att : att.id # id)

\* lines 358-366, the remove button of line 913
removeAttachment(id) ==
  /\ mounted
  /\ revoked' = revoked \cup RevokedBy(id)
  /\ attachments' = WithoutAttachment(attachments, id)
  /\ guardRejected' = FALSE
  /\ UNCHANGED << messages, conversation, heap, input, status, sessionFiles,
                  timers, flows, puterLoaded, fsPresent, modelId, nextAttId,
                  mounted, cleanups, deleteCalls, probe >>

(* --------------------------------------------------- the catch block *)
\* lines 672-700, run by flow k on the display log msgs and heap hp
Catch(k, error, msgs, hp, fl) ==
  /\ heap' = hp @@ (<<k, "err">> :> ErrorMessage(error))
  /\ messages' = Append(msgs, <<k, "err">>)
  /\ status' = StatusAfterCatch
  /\ timers' = timers + 1
  /\ flows' = [fl EXCEPT ![k].pc = "failed", ![k].thrown = error,
                         ![k].failedAt = fl[k].pc]

\* lines 573-597: build the API message, append it, call the chat capability
CallChat(k, hp, fl) ==
  LET ua == userMessageForApi(fl[k].textToSend, fl[k].uploaded) IN
  /\ heap' = hp @@ (<<k, "ua">> :> ua)
  /\ conversation' = Append(conversation, <<k, "ua">>)
  /\ flows' = [fl EXCEPT ![k].pc = "chat",
                         ![k].chatArg = Append(conversation, <<k, "ua">>),
                         ![k].nChat = fl[k].nChat + 1]

(* ------------------------------------------------------- sendMessage *)
\* faulty variant of clearAttachments: the collection is left as it is
clearAttachments_kept == attachments

\* lines 368-373: setAttachments([])
clearAttachments == <<>>

\* faulty variant of UploadsSupported: the capability test of line 377 is
\* missing
UploadsSupported_always == TRUE

\* line 377, negated: window.puter?.fs is there
UploadsSupported == fsPresent

sendMessageIgnored ==
  /\ mounted
  /\ ~ SendGuard
  /\ guardRejected' = TRUE
  /\ UNCHANGED << mounted, cleanups, deleteCalls, probe, revoked >>
  /\ UNCHANGED << messages, conversation, heap, input, attachments, status,
                  sessionFiles, timers, flows, puterLoaded, fsPresent,
                  modelId, nextAttId >>

sendMessageStart ==
  LET k == Len(flows) + 1
      textToSend == Trim(input)
      attachmentsToSend == attachments
      ud == userMessageDisplay(textToSend, attachmentsToSend)
      hp == heap @@ (<<k, "ud">> :> ud)
      newMessages == Append(messages, <<k, "ud">>)
      fl0 == Append(flows, NewFlow(textToSend, attachmentsToSend))
      first == NextLocal(attachmentsToSend, 1)
  IN
  /\ mounted
  /\ SendGuard
  /\ Len(flows) < MaxSends
  /\ input' = <<>>
  /\ attachments' = clearAttachments
  /\ guardRejected' = FALSE
  /\ UNCHANGED << mounted, cleanups, deleteCalls, probe, revoked >>
  /\ UNCHANGED << sessionFiles, puterLoaded, fsPresent, modelId, nextAttId >>
  /\ IF ~ puterLoaded
     THEN /\ Catch(k, NativeError(<<"Puter SDK not loaded">>), newMessages, hp, fl0)
          /\ UNCHANGED conversation
     ELSE IF modelId = "video-generation"
     THEN /\ flows' = [fl0 EXCEPT
                 ![k].pc = "vid",
                 ![k].nVideo = 1,
                 ![k].videoPrompt = videoPromptOf(textToSend, attachmentsToSend),
                 ![k].inputReference = (Len(attachmentsToSend) > 0
                                         /\ attachmentsToSend[1].hasFile)]
          /\ heap' = hp
          /\ messages' = newMessages
          /\ status' = "thinking"
          /\ UNCHANGED << conversation, timers >>
     ELSE IF Len(attachmentsToSend) > 0 /\ ~ UploadsSupported
     THEN /\ Catch(k, NativeError(<<"File uploads are not supported in this environment.">>),
                   newMessages, hp, [fl0 EXCEPT ![k].pc = "write"])
          /\ UNCHANGED conversation
     ELSE IF Len(attachmentsToSend) > 0 /\ first <= Len(attachmentsToSend)
     THEN /\ flows' = [fl0 EXCEPT ![k].pc = "write", ![k].upIdx = first]
          /\ heap' = hp
          /\ messages' = newMessages
          /\ status' = "thinking"
          /\ UNCHANGED << conversation, timers >>
     ELSE /\ CallChat(k, hp, fl0)
          /\ messages' = newMessages
          /\ status' = "thinking"
          /\ UNCHANGED timers

sendMessage == sendMessageIgnored \/ sendMessageStart

(* ------------------------------------------- storage write completions *)
\* faulty variant of UploadedRecord: the record carries the path of the
\* first write
UploadedRecord_firstPath(attachment, path) ==
  [attachment EXCEPT !.hasFile = FALSE, !.puterPath = PathOfWrite(1)]

\* lines 387-391: { ...attachment, file: undefined, puterPath: handle.path }
UploadedRecord(attachment, path) ==
  [attachment EXCEPT !.hasFile = FALSE, !.puterPath = path]

RECURSIVE WritesDone(_)
WritesDone(fl) ==
  IF fl = <<>> THEN 0 ELSE Len(Head(fl).writes) + WritesDone(Tail(fl))

\* line 385 resolves for flow k with a handle for a newly written file
WriteResolve(k) ==
  LET f == flows[k]
      path == PathOfWrite(WritesDone(flows) + 1)
      att == f.attachmentsToSend[f.upIdx]
      uploaded == Append(f.uploaded, UploadedRecord(att, path))
      next == NextLocal(f.attachmentsToSend, f.upIdx + 1)
      fl1 == [flows EXCEPT ![k].uploaded = uploaded,
                           ![k].writes = Append(f.writes, path),
                           ![k].upIdx = next]
  IN
  /\ f.pc = "write"
  /\ sessionFiles' = sessionFiles \cup { path }
  /\ guardRejected' = FALSE
  /\ UNCHANGED << mounted, cleanups, deleteCalls, probe, revoked >>
  /\ IF next <= Len(f.attachmentsToSend)
     THEN /\ flows' = fl1
          /\ UNCHANGED << heap, conversation >>
     ELSE CallChat(k, heap, fl1)
  /\ UNCHANGED << messages, input, attachments, status, timers, puterLoaded,
                  fsPresent, modelId, nextAttId >>

\* line 385 rejects for flow k
WriteReject(k, error) ==
  /\ flows[k].pc = "write"
  /\ Catch(k, error, messages, heap, flows)
  /\ guardRejected' = FALSE
  /\ UNCHANGED << mounted, cleanups, deleteCalls, probe, revoked >>
  /\ UNCHANGED << conversation, input, attachments, sessionFiles, puterLoaded,
                  fsPresent, modelId, nextAttId >>

(* ------------------------------------------------- chat call completions *)
\* line 597 resolves for flow k; lines 599-670 up to the first await
ChatResolve(k, response) ==
  LET ph == Message("assistant", StrContent(<<>>), TRUE, <<>>, "")
      conv1 == Append(conversation, <<k, "ph">>)
      msgs1 == Append(messages, <<k, "ph">>)
      hp1 == heap @@ (<<k, "ph">> :> ph)
      answer == extractContent(response)
      finalMessage == Message("assistant", StrContent(answer), FALSE, <<>>, "")
  IN
  /\ flows[k].pc = "chat"
  /\ guardRejected' = FALSE
  /\ UNCHANGED << mounted, cleanups, deleteCalls, probe, revoked >>
  /\ IF isAsyncIterable(response)
     THEN /\ heap' = hp1
          /\ conversation' = conv1
          /\ messages' = msgs1
          /\ status' = "thinking"
          /\ flows' = [flows EXCEPT ![k].pc = "stream", ![k].streaming = TRUE,
                                    ![k].response = response]
     ELSE /\ heap' = hp1 @@ (<<k, "fin">> :> finalMessage)
          /\ conversation' = ReplaceLast(conv1, <<k, "fin">>)
          /\ messages' = ReplaceLast(msgs1, <<k, "fin">>)
          /\ status' = "ready"
          /\ flows' = [flows EXCEPT ![k].pc = "done", ![k].fullContent = answer,
                                    ![k].response = response]
  /\ UNCHANGED << input, attachments, sessionFiles, timers, puterLoaded,
                  fsPresent, modelId, nextAttId >>

\* line 597 rejects for flow k
ChatReject(k, error) ==
  /\ flows[k].pc = "chat"
  /\ Catch(k, error, messages, heap, flows)
  /\ guardRejected' = FALSE
  /\ UNCHANGED << mounted, cleanups, deleteCalls, probe, revoked >>
  /\ UNCHANGED << conversation, input, attachments, sessionFiles, puterLoaded,
                  fsPresent, modelId, nextAttId >>

(* ---------------------------------------------------------- streaming *)
\* lines 626-633: the display log's last message, when it is an assistant
\* message, is mutated in place
ApplyChunk(hp, msgs, fullContent) ==
  IF Len(msgs) > 0 /\ hp[Last(msgs)].role = "assistant"
  THEN [hp EXCEPT ![Last(msgs)].content = StrContent(fullContent)]
  ELSE hp

\* one iteration of the for-await loop of flow k, lines 616-634
StreamChunk(k) ==
  LET f == flows[k]
      part == ChunkAt(Len(f.chunks) + 1)
      fullContent == f.fullContent \o ChunkText(part)
  IN
  /\ f.pc = "stream"
  /\ Len(f.chunks) < MaxChunks
  /\ status' = StatusOnFirstChunk(f.isFirstChunk, status)
  /\ heap' = ApplyChunk(heap, messages, fullContent)
  /\ flows' = [flows EXCEPT ![k].fullContent = fullContent,
                            ![k].isFirstChunk = FALSE,
                            ![k].chunks = Append(f.chunks, part)]
  /\ guardRejected' = FALSE
  /\ UNCHANGED << mounted, cleanups, deleteCalls, probe, revoked >>
  /\ UNCHANGED << messages, conversation, input, attachments, sessionFiles,
                  timers, puterLoaded, fsPresent, modelId, nextAttId >>

\* the stream of flow k is exhausted: lines 658-670
StreamEnd(k) ==
  LET f == flows[k]
      finalMessage == Message("assistant", StrContent(f.fullContent), FALSE, <<>>, "")
  IN
  /\ f.pc = "stream"
  /\ heap' = heap @@ (<<k, "fin">> :> finalMessage)
  /\ conversation' = ReplaceLast(conversation, <<k, "fin">>)
  /\ messages' = ReplaceLast(messages, <<k, "fin">>)
  /\ flows' = [flows EXCEPT ![k].pc = "done"]
  /\ guardRejected' = FALSE
  /\ UNCHANGED << mounted, cleanups, deleteCalls, probe, revoked >>
  /\ UNCHANGED << input, attachments, status, sessionFiles, timers,
                  puterLoaded, fsPresent, modelId, nextAttId >>

\* the stream of flow k throws
StreamThrow(k, error) ==
  /\ flows[k].pc = "stream"
  /\ Catch(k, error, messages, heap, flows)
  /\ guardRejected' = FALSE
  /\ UNCHANGED << mounted, cleanups, deleteCalls, probe, revoked >>
  /\ UNCHANGED << conversation, input, attachments, sessionFiles, puterLoaded,
                  fsPresent, modelId, nextAttId >>

(* ------------------------------------------------------ video generation *)
\* line 548 resolves for flow k: lines 550-561
VideoResolve(k, videoUrl) ==
  LET assistantMessage ==
        Message("assistant", StrContent(<<"Here is your generated video:">>),
                FALSE, <<>>, videoUrl)
  IN
  /\ flows[k].pc = "vid"
  /\ heap' = heap @@ (<<k, "vid">> :> assistantMessage)
  /\ conversation' = Append(conversation, <<k, "vid">>)
  /\ messages' = Append(messages, <<k, "vid">>)
  /\ status' = "ready"
  /\ flows' = [flows EXCEPT ![k].pc = "done"]
  /\ guardRejected' = FALSE
  /\ UNCHANGED << mounted, cleanups, deleteCalls, probe, revoked >>
  /\ UNCHANGED << input, attachments, sessionFiles, timers, puterLoaded,
                  fsPresent, modelId, nextAttId >>

\* line 548 rejects for flow k
VideoReject(k, error) ==
  /\ flows[k].pc = "vid"
  /\ Catch(k, error, messages, heap, flows)
  /\ guardRejected' = FALSE
  /\ UNCHANGED << mounted, cleanups, deleteCalls, probe, revoked >>
  /\ UNCHANGED << conversation, input, attachments, sessionFiles, puterLoaded,
                  fsPresent, modelId, nextAttId >>

(* ------------------------------------------------------------- the timer *)
\* a callback scheduled at line 699 runs
TimerFire ==
  /\ timers > 0
  /\ timers' = timers - 1
  /\ status' = StatusAfterTimer
  /\ guardRejected' = FALSE
  /\ UNCHANGED << mounted, cleanups, deleteCalls, probe, revoked >>
  /\ UNCHANGED << messages, conversation, heap, input, attachments,
                  sessionFiles, flows, puterLoaded, fsPresent, modelId,
                  nextAttId >>

(* ------------------------------------------------------------------ Next *)
Next ==
  \/ \E t \in InputTexts : SetInput(t)
  \/ \E files \in FileBatches : addAttachments(files)
  \/ sendMessage
  \/ \E k \in 1..Len(flows) : WriteResolve(k)
  \/ \E k \in 1..Len(flows), error \in ThrownValues : WriteReject(k, error)
  \/ \E k \in 1..Len(flows), response \in ChatResponses : ChatResolve(k, response)
  \/ \E k \in 1..Len(flows), error \in ThrownValues : ChatReject(k, error)
  \/ \E k \in 1..Len(flows) : StreamChunk(k)
  \/ \E k \in 1..Len(flows) : StreamEnd(k)
  \/ \E k \in 1..Len(flows), error \in ThrownValues : StreamThrow(k, error)
  \/ \E k \in 1..Len(flows), videoUrl \in VideoUrls : VideoResolve(k, videoUrl)
  \/ \E k \in 1..Len(flows), error \in ThrownValues : VideoReject(k, error)
  \/ TimerFire

Spec == Init /\ [][Next]_vars

FairSpec == Spec /\ WF_vars(TimerFire)

\* some pending capability call of some send returns, with a value or an error
Returns ==
  \E k \in 1..Len(flows) :
    \/ WriteResolve(k)
    \/ \E error \in ThrownValues : WriteReject(k, error)
    \/ \E response \in ChatResponses : ChatResolve(k, response)
    \/ \E error \in ThrownValues : ChatReject(k, error)
    \/ StreamChunk(k)
    \/ StreamEnd(k)
    \/ \E error \in ThrownValues : StreamThrow(k, error)
    \/ \E videoUrl \in VideoUrls : VideoResolve(k, videoUrl)
    \/ \E error \in ThrownValues : VideoReject(k, error)

\* every capability call returns and every timer fires
FairSpecReturns == Spec /\ WF_vars(TimerFire) /\ WF_vars(Returns)

TypeOK ==
  /\ status \in { "ready", "thinking", "error" }
  /\ Len(flows) <= MaxSends
  /\ timers \in 0..MaxSends

(***************************************************************************)
(* The values a capability can throw, in every shape the catch block tells *)
(* apart (lines 675-690).                                                  *)
(***************************************************************************)
ErrorValues ==
  [t : { "Error", "object", "circular" }, message : { <<>>, <<"m">> },
   nested : { <<>>, <<"n">> }, raw : { <<"{json}">> }]
    \cup [t : { "string" }, message : { <<>> }, nested : { <<>> },
          raw : { <<>>, <<"boom">> }]
    \cup [t : { "other" }, message : { <<>> }, nested : { <<>> }, raw : { <<>> }]

Throws ==
  \E k \in 1..Len(flows), error \in ErrorValues :
    \/ WriteReject(k, error)
    \/ ChatReject(k, error)
    \/ StreamThrow(k, error)
    \/ VideoReject(k, error)

NextCatch ==
  \/ Next /\ Len(flows') <= MaxCatchSends
  \/ Throws

SpecCatch == Init /\ [][NextCatch]_vars

(***************************************************************************)
(* The pending attachment collection under add, remove and send, with      *)
(* enough attachments created to reach maxCount; the input field stays     *)
(* empty, every send carries attachments.                                  *)
(***************************************************************************)
NextAttach ==
  \/ \E files \in FileBatches : addAttachmentsWithin(files, MaxAttachIds)
  \/ \E id \in 1..MaxAttachIds : removeAttachment(id)
  \/ sendMessage /\ Len(flows') <= MaxAttachSends
  \/ Returns
  \/ TimerFire

SpecAttach == Init /\ [][NextAttach]_vars

(***************************************************************************)
(* Leaving the chat.  Both back buttons call cleanupSessionFiles() and     *)
(* then onBack(), which unmounts the component; a call made while the      *)
(* previous one has finished stands for a second click handled before the  *)
(* parent renders.  Sends that are in flight go on after the unmount: the  *)
(* refs stay alive and the state setters act on the detached state.        *)
(* One call of cleanupSessionFiles is a record: snapshot is                *)
(* Array.from(sessionFilesRef.current) of line 419, pending the deletes    *)
(* that have not settled, failed the paths whose delete rejected, raised   *)
(* whether the call's promise rejected.                                    *)
(***************************************************************************)
NewCleanup(paths) ==
  [snapshot |-> paths, pending |-> paths, failed |-> {}, raised |-> FALSE]

CleanupDone(c) == c.pending = {}

\* line 421 called for every path of the snapshot
IssueDeletes(paths) ==
  [p \in (DOMAIN deleteCalls) \cup paths |->
     IF p \in paths
     THEN (IF p \in DOMAIN deleteCalls THEN deleteCalls[p] ELSE 0) + 1
     ELSE deleteCalls[p]]

\* faulty variant of SessionFilesAfterCleanup: line 427 is missing
SessionFilesAfterCleanup_kept == sessionFiles

\* line 427: sessionFilesRef.current.clear()
SessionFilesAfterCleanup == {}

\* faulty variant of AfterDeleteRejected: the rejection is not caught, the
\* call gives up
AfterDeleteRejected_rethrown(c, p) ==
  [c EXCEPT !.pending = {}, !.failed = @ \cup { p }, !.raised = TRUE]

\* lines 422-424: the rejection is caught and logged
AfterDeleteRejected(c, p) ==
  [c EXCEPT !.pending = @ \ { p }, !.failed = @ \cup { p }]

\* lines 726-730 and 741-744; lines 417-419 and, for an empty snapshot,
\* lines 426-427
cleanupSessionFiles ==
  /\ Len(cleanups) < MaxCleanups
  /\ \A i \in 1..Len(cleanups) : CleanupDone(cleanups[i])
  /\ mounted' = FALSE
  /\ IF ~ fsPresent
     THEN /\ cleanups' = Append(cleanups, NewCleanup({}))
          /\ UNCHANGED << sessionFiles, deleteCalls >>
     ELSE /\ cleanups' = Append(cleanups, NewCleanup(sessionFiles))
          /\ deleteCalls' = IssueDeletes(sessionFiles)
          /\ sessionFiles' = IF sessionFiles = {} THEN SessionFilesAfterCleanup
                                                  ELSE sessionFiles
  /\ UNCHANGED << messages, conversation, heap, input, attachments, status,
                  timers, flows, puterLoaded, fsPresent, modelId, nextAttId,
                  guardRejected, probe, revoked >>

\* lines 426-427, once every delete of call i has settled
CleanupSettle(i, c) ==
  /\ cleanups' = [cleanups EXCEPT ![i] = c]
  /\ sessionFiles' = IF CleanupDone(c) /\ ~ c.raised
                     THEN SessionFilesAfterCleanup ELSE sessionFiles
  /\ UNCHANGED << messages, conversation, heap, input, attachments, status,
                  timers, flows, puterLoaded, fsPresent, modelId, nextAttId,
                  guardRejected, mounted, deleteCalls, probe, revoked >>

\* line 421 resolves for path p of call i
DeleteResolve(i, p) ==
  /\ p \in cleanups[i].pending
  /\ CleanupSettle(i, [cleanups[i] EXCEPT !.pending = @ \ { p }])

\* line 421 rejects for path p of call i
DeleteReject(i, p) ==
  /\ p \in cleanups[i].pending
  /\ CleanupSettle(i, AfterDeleteRejected(cleanups[i], p))

NextCleanup ==
  \/ Next /\ Len(flows') <= MaxCleanupSends
  \/ cleanupSessionFiles
  \/ \E i \in 1..Len(cleanups) : \E p \in cleanups[i].pending : DeleteResolve(i, p)
  \/ \E i \in 1..Len(cleanups) : \E p \in cleanups[i].pending : DeleteReject(i, p)

SpecCleanup == Init /\ [][NextCleanup]_vars

(* ------------------------------------------------- helpers of the claims *)
Range(s) == { s[i] : i \in 1..Len(s) }

Flows == 1..Len(flows)

\* the roles of the entries of a log that belong to turn k, in log order
RECURSIVE TurnRoles(_, _)
TurnRoles(log, k) ==
  IF log = <<>> THEN <<>>
  ELSE (IF Head(log)[1] = k THEN << heap[Head(log)].role >> ELSE <<>>)
       \o TurnRoles(Tail(log), k)

\* the (turn, role) entries of a log
TurnLog(log) == [i \in 1..Len(log) |-> << log[i][1], heap[log[i]].role >>]

RECURSIVE ChunkTexts(_)
ChunkTexts(parts) ==
  IF parts = <<>> THEN <<>> ELSE ChunkText(Head(parts)) \o ChunkTexts(Tail(parts))

\* flow k takes the catch block in this step
Fails(k) ==
  /\ k \in 1..Len(flows')
  /\ flows'[k].pc = "failed"
  /\ (k \in Flows => flows[k].pc # "failed")

(* ---------------------------------------------------------------- C1 *)
\* C1: in one conversation at most one sendMessage flow is in progress at any
\* time: between passing the guard and completing or failing, no second call
\* passes the guard.
C1_OneSendInFlight ==
  Cardinality({ k \in Flows : InFlight(k) }) <= 1

(* ---------------------------------------------------------------- C2 *)
\* C2: after every turn that finishes successfully (chat or video path) both
\* logs hold that turn's user message and then its assistant message, and when
\* every turn has finished successfully the two logs have the same sequence
\* of (turn, role) entries.
C2_LogsAppendSynchronized ==
  /\ \A k \in Flows :
       flows[k].pc = "done" =>
         /\ TurnRoles(messages, k) = << "user", "assistant" >>
         /\ TurnRoles(conversation, k) = << "user", "assistant" >>
  /\ (\A k \in Flows : flows[k].pc = "done") =>
       TurnLog(messages) = TurnLog(conversation)

(* ---------------------------------------------------------------- C3 *)
\* C3: when a send has failed, the API log holds no assistant entry of the
\* failed turn (no placeholder, no partial content, no error text).
C3_NoAssistantEntryOfFailedTurn ==
  \A k \in Flows :
    flows[k].pc = "failed" =>
      \A i \in 1..Len(conversation) :
        ~ (conversation[i][1] = k /\ heap[conversation[i]].role = "assistant")

(* ---------------------------------------------------------------- C4 *)
\* C4: once the error path of a send has run, the display log no longer shows
\* that send's streaming placeholder.
C4_PlaceholderSuperseded ==
  \A k \in Flows :
    flows[k].pc = "failed" => << k, "ph" >> \notin Range(messages)

(* ---------------------------------------------------------------- C5 *)
\* C5: when the chat or video call of a send rejects, the API log after the
\* error has been handled equals the API log as it was just before that
\* sendMessage call started.
C5_HistoryRetained ==
  [][ \A k \in Flows :
        (flows[k].pc \in { "chat", "vid" } /\ Fails(k)) =>
          conversation' = flows[k].convBefore ]_vars

(* ---------------------------------------------------------------- C6 *)
\* C6: when the chat call rejects with an error carrying message m, the last
\* message of the display log becomes an assistant message "Error: " + m, the
\* status goes from thinking to error, and the chat capability is invoked at
\* most once per submitted message (no automatic retry).
C6_ChatRejectShowsError ==
  /\ [][ \A k \in Flows :
           (flows[k].pc = "chat" /\ Fails(k)) =>
             /\ heap'[Last(messages')].role = "assistant"
             /\ heap'[Last(messages')].content
                  = StrContent(<< "Error: " >> \o flows'[k].thrown.message)
             /\ status = "thinking"
             /\ status' = "error" ]_vars
  /\ [](\A k \in Flows : flows[k].nChat <= 1)

(* ---------------------------------------------------------------- C7 *)
\* C7: every failure path of a send puts the status in error and schedules
\* the timer; while the status is error a timer is pending; and the status
\* error always leads to the status ready.
C7_FailureRecovers ==
  /\ [][ \A k \in 1..MaxSends :
           Fails(k) => (status' = "error" /\ timers' = timers + 1) ]_vars
  /\ [](status = "error" => timers > 0)
  /\ ((status = "error") ~> (status = "ready"))

\* a stream threw mid-way, the timer fired, and the status is ready again
C7_Witness ==
  \E k \in Flows :
    /\ flows[k].pc = "failed"
    /\ flows[k].failedAt = "stream"
    /\ flows[k].chunks # <<>>
    /\ status = "ready"
    /\ timers = 0

(* ---------------------------------------------------------------- C8 *)
\* C8: for a streamed response, once k >= 1 chunks have arrived the displayed
\* content of the turn's assistant message is the concatenation of the texts
\* of chunks 1..k, and after the stream has ended it is the concatenation of
\* all chunks.
C8_DisplayedPrefixes ==
  \A k \in Flows :
    LET f == flows[k]
        shown == { id \in Range(messages) :
                     id[1] = k /\ heap[id].role = "assistant" }
    IN
    (f.streaming /\ f.pc \in { "stream", "done" }
                 /\ (f.chunks # <<>> \/ f.pc = "done")) =>
      /\ shown # {}
      /\ \A id \in shown : heap[id].content = StrContent(ChunkTexts(f.chunks))

(* ---------------------------------------------------------------- C9 *)
\* the guard as the specification words it
ClaimGuard ==
  status # "thinking" /\ (Trim(input) # <<>> \/ Len(attachments) >= 1)

\* C9: a sendMessage call starts a send only when the status is not thinking
\* and the trimmed input is non-empty or an attachment is pending; a call the
\* guard stops leaves input, pending attachments, status, both logs, the
\* session file set and every send's capability calls unchanged.
C9_GuardFrame ==
  [][ /\ (Len(flows') > Len(flows) => ClaimGuard)
      /\ (guardRejected' =>
            /\ ~ ClaimGuard
            /\ UNCHANGED << input, attachments, status, messages, conversation,
                            heap, sessionFiles, timers, flows >>) ]_vars

\* a call was stopped although the input field holds (only) whitespace, after
\* an earlier send had completed
C9_Witness ==
  /\ guardRejected
  /\ input # <<>>
  /\ status = "ready"
  /\ \E k \in Flows : flows[k].pc = "done"

(* --------------------------------------------------------------- C10 *)
\* C10: on the chat path the API message content of a send with attachments
\* a1..an is the file-reference parts carrying the paths the storage writes
\* returned for a1..an, in that order, followed by one text part iff the text
\* is non-empty; with no attachments it is the plain text.
C10_ApiContent ==
  \A k \in Flows :
    << k, "ua" >> \in DOMAIN heap =>
      LET f == flows[k]
          n == Len(f.attachmentsToSend)
          c == heap[<< k, "ua" >>].content
      IN
      IF n = 0 THEN c = StrContent(f.textToSend)
      ELSE /\ Len(f.writes) = n
           /\ \A i \in 1..n : f.uploaded[i].id = f.attachmentsToSend[i].id
           /\ c.t = "parts"
           /\ Len(c.parts) = n + (IF f.textToSend # <<>> THEN 1 ELSE 0)
           /\ \A i \in 1..n : /\ c.parts[i].type = "file"
                              /\ c.parts[i].puter_path = f.writes[i]
           /\ f.textToSend # <<>> =>
                /\ c.parts[n + 1].type = "text"
                /\ c.parts[n + 1].text = f.textToSend

\* a send with two attachments and a text has built its API message
C10_Witness ==
  \E k \in Flows :
    /\ << k, "ua" >> \in DOMAIN heap
    /\ Len(flows[k].attachmentsToSend) = 2
    /\ flows[k].textToSend # <<>>
    /\ heap[<< k, "ua" >>].content.t = "parts"

(***************************************************************************)
(* Pure functions.  SpecPure draws an argument into probe and applies the  *)
(* function to it; the program state stays as constructed.                 *)
(***************************************************************************)
ValidateTypes == { "image/png", "text/plain", "application/x-msdownload", "" }

ValidateSizes == { 0, maxSize, maxSize + 1 }

ValidateFiles == [name : { "f" }, type : ValidateTypes, size : ValidateSizes]

ValidateCounts == 0..(maxCount + 1)

ValidateProbes ==
  [op : { "validateFile" }, file : ValidateFiles, currentCount : ValidateCounts,
   done : { FALSE }, out : { <<>> }]

AddProbes ==
  [op : { "addAttachments" },
   files : UNION { [1..n -> ValidateFiles] : n \in 1..MaxBatch },
   currentCount : 0..maxCount, done : { FALSE }, out : { <<>> }]

\* the shapes the Response Normalizer is probed with; an absent property and
\* an undefined one are the same to every test of lines 44-74
JsObject(text, message, content) ==
  [t |-> "object", text |-> text, message |-> message, content |-> content]

NormParts ==
  { Undefined, JsNumber, JsString(<<"a">>),
    JsObject(JsString(<<"b">>), Undefined, Undefined),
    JsObject(JsNumber, Undefined, Undefined),
    JsObject(Undefined, Undefined, Undefined) }

NormArrays == { JsArray(items) : items \in UNION { [1..n -> NormParts] : n \in 0..MaxParts } }

NormContents ==
  { Undefined, JsNumber, JsString(<<>>), JsString(<<"C">>) }
    \cup NormArrays
    \cup { JsObject(text, Undefined, Undefined) :
             text \in { Undefined, JsNumber, JsString(<<"X">>) } }

NormMessages ==
  { Undefined, JsNumber, JsString(<<>>), JsString(<<"M">>) }
    \cup { JsObject(Undefined, Undefined, content) : content \in NormContents }

NormPayloads ==
  { Undefined, JsNumber, JsString(<<>>), JsString(<<"P">>),
    JsArray(<< JsString(<<"a">>) >>) }
    \cup { JsObject(text, message, content) :
             text \in { Undefined, JsNumber, JsString(<<"T">>) },
             message \in NormMessages,
             content \in { Undefined, JsString(<<"C">>),
                           JsArray(<< JsString(<<"a">>),
                                      JsObject(JsString(<<"b">>), Undefined, Undefined) >>),
                           JsObject(JsString(<<"X">>), Undefined, Undefined) } }

NormalizeProbes ==
  [op : { "extractResponseText" }, payload : NormPayloads,
   done : { FALSE }, out : { <<>> }]

ApplyExtractResponseText ==
  /\ probe.op = "extractResponseText"
  /\ ~ probe.done
  /\ probe' = [probe EXCEPT
                 !.done = TRUE,
                 !.out = << extractResponseText(probe.payload) >>]
  /\ UNCHANGED << messages, conversation, heap, input, attachments, status,
                  sessionFiles, timers, flows, puterLoaded, fsPresent, modelId,
                  nextAttId, guardRejected, mounted, cleanups, deleteCalls,
                  revoked >>

ApplyValidateFile ==
  /\ probe.op = "validateFile"
  /\ ~ probe.done
  /\ probe' = [probe EXCEPT
                 !.done = TRUE,
                 !.out = << validateFile(probe.file, probe.currentCount) >>]
  /\ UNCHANGED << messages, conversation, heap, input, attachments, status,
                  sessionFiles, timers, flows, puterLoaded, fsPresent, modelId,
                  nextAttId, guardRejected, mounted, cleanups, deleteCalls,
                  revoked >>

\* the loop of addAttachments (lines 329-342) on a collection of currentCount
ApplyAdditions ==
  /\ probe.op = "addAttachments"
  /\ ~ probe.done
  /\ probe' = [probe EXCEPT
                 !.done = TRUE,
                 !.out = Additions(probe.files, probe.currentCount, 1)]
  /\ UNCHANGED << messages, conversation, heap, input, attachments, status,
                  sessionFiles, timers, flows, puterLoaded, fsPresent, modelId,
                  nextAttId, guardRejected, mounted, cleanups, deleteCalls,
                  revoked >>

PureProbes == ValidateProbes \cup AddProbes \cup NormalizeProbes

InitPure ==
  /\ messages = <<>>
  /\ conversation = <<>>
  /\ heap = << >>
  /\ input = <<>>
  /\ attachments = <<>>
  /\ status = "ready"
  /\ sessionFiles = {}
  /\ timers = 0
  /\ flows = <<>>
  /\ puterLoaded = TRUE
  /\ fsPresent = TRUE
  /\ modelId = "gpt-4o"
  /\ nextAttId = 1
  /\ guardRejected = FALSE
  /\ mounted = TRUE
  /\ cleanups = <<>>
  /\ deleteCalls = << >>
  /\ probe \in PureProbes
  /\ revoked = {}

NextPure ==
  \/ ApplyValidateFile
  \/ ApplyAdditions
  \/ ApplyExtractResponseText

SpecPure == InitPure /\ [][NextPure]_vars

(* --------------------------------------------------------------- C11 *)
\* acceptance as the specification words it
ClaimAccepts(file, count) ==
  /\ file.type \in allowedTypes
  /\ file.size <= maxSize
  /\ count < maxCount

RECURSIVE ClaimAccepted(_, _)
ClaimAccepted(files, count) ==
  IF files = <<>> THEN <<>>
  ELSE IF ClaimAccepts(Head(files), count)
       THEN << Head(files) >> \o ClaimAccepted(Tail(files), count + 1)
       ELSE ClaimAccepted(Tail(files), count)

\* C11: validate depends on (type, size, count) only: a type outside the
\* allow-list is rejected for every size and count, an allowed type above
\* maxSize is rejected for every count, a file is accepted exactly when none
\* of the three conditions holds, and in one add batch only accepted files
\* raise the count, so that nothing is accepted once maxCount is reached.
C11_ValidateDeterministic ==
  /\ (probe.op = "validateFile" /\ probe.done) =>
       LET f == probe.file
           c == probe.currentCount
           ok == probe.out = << "ok" >>
       IN
       /\ f.type \notin allowedTypes => ~ ok
       /\ (f.type \in allowedTypes /\ f.size > maxSize) => ~ ok
       /\ c >= maxCount => ~ ok
       /\ ok <=> ClaimAccepts(f, c)
  /\ (probe.op = "addAttachments" /\ probe.done) =>
       LET expected == ClaimAccepted(probe.files, probe.currentCount) IN
       /\ Len(probe.out) = Len(expected)
       /\ \A i \in 1..Len(expected) :
            /\ probe.out[i].name = expected[i].name
            /\ probe.out[i].type = expected[i].type
            /\ probe.out[i].size = expected[i].size
       /\ probe.currentCount + Len(probe.out) <= maxCount

\* a batch of two valid files met a collection one below the ceiling: the
\* first was accepted, the second rejected
C11_Witness ==
  /\ probe.op = "addAttachments"
  /\ probe.done
  /\ probe.currentCount = maxCount - 1
  /\ Len(probe.files) = 2
  /\ \A i \in 1..2 : probe.files[i].type \in allowedTypes
                     /\ probe.files[i].size <= maxSize
  /\ Len(probe.out) = 1

(* --------------------------------------------------------------- C19 *)
RECURSIVE ClaimPartsText(_)
ClaimPartsText(items) ==
  IF items = <<>> THEN <<>>
  ELSE LET part == Head(items) IN
       (IF part.t = "string" THEN part.s
        ELSE IF Get(part, "text").t = "string" THEN Get(part, "text").s
        ELSE <<>>) \o ClaimPartsText(Tail(items))

\* the priority order of the specification, for a payload whose message is
\* the given value
ClaimNormalized(payload, message) ==
  LET content == Get(message, "content") IN
  IF payload.t = "string" THEN payload
  ELSE IF Get(payload, "text").t = "string" THEN Get(payload, "text")
  ELSE IF message.t = "string" THEN message
  ELSE IF content.t = "string" THEN content
  ELSE IF content.t = "array" THEN JsString(ClaimPartsText(content.items))
  ELSE IF Get(content, "text").t # "null" THEN Get(content, "text")
  ELSE JsString(<<>>)

NormalizerDone == probe.op = "extractResponseText" /\ probe.done

\* C19 as stated: the message of a payload is its message field, so that a
\* payload without one falls through to the empty string.
C19_MessageFieldOnly ==
  NormalizerDone =>
    probe.out = << ClaimNormalized(probe.payload, Get(probe.payload, "message")) >>

\* C19, amended: the Response Normalizer returns a value for every payload and
\* follows the priority order string, text, message string, content string,
\* content parts joined without separator, content object's text, else the
\* empty string, where the message is the payload's message field or, when
\* that field is absent or null, the payload itself.
C19_NormalizerPriority ==
  NormalizerDone =>
    LET payload == probe.payload
        message == IF Get(payload, "message").t = "null"
                   THEN payload ELSE Get(payload, "message")
    IN
    /\ Len(probe.out) = 1
    /\ probe.out = << ClaimNormalized(payload, message) >>
    /\ (~ IsObject(payload) /\ payload.t # "string") => probe.out[1] = JsString(<<>>)

\* a payload without a message field whose own content is an array of parts
\* was normalized to the concatenation of the parts' texts
C19_Witness ==
  /\ NormalizerDone
  /\ IsObject(probe.payload)
  /\ probe.payload.text.t # "string"
  /\ probe.payload.message.t = "null"
  /\ probe.payload.content.t = "array"
  /\ probe.out = << JsString(<< "a", "b" >>) >>

(* --------------------------------------------------------------- C12 *)
LeftChat ==
  /\ ~ mounted
  /\ \A i \in 1..Len(cleanups) : CleanupDone(cleanups[i])
  /\ \A k \in Flows : ~ InFlight(k)

\* C12: once the user has left the chat, every call of cleanupSessionFiles
\* has finished and no send is in flight, a delete has been attempted for
\* every path a storage write returned, also for the writes of an upload that
\* was running when cleanupSessionFiles was called.
C12_CleanupGuaranteed ==
  LeftChat =>
    \A k \in Flows : \A p \in Range(flows[k].writes) : p \in DOMAIN deleteCalls

(* --------------------------------------------------------------- C13 *)
\* C13: with the storage capability present, the step that finishes a call of
\* cleanupSessionFiles leaves the tracked path set empty, and a later call
\* raises no error and issues no delete for a path an earlier call deleted.
C13_CleanupIdempotent ==
  [][ fsPresent =>
      /\ \A i \in 1..Len(cleanups) :
           (~ CleanupDone(cleanups[i]) /\ CleanupDone(cleanups'[i]))
             => sessionFiles' = {}
      /\ Len(cleanups') > Len(cleanups) =>
           /\ CleanupDone(Last(cleanups')) => sessionFiles' = {}
           /\ \A p \in Last(cleanups').snapshot : p \notin DOMAIN deleteCalls
      /\ \A i \in 1..Len(cleanups') : ~ cleanups'[i].raised
    ]_vars

\* a first call deleted a written path and finished, then a second call ran
C13_Witness ==
  /\ fsPresent
  /\ Len(cleanups) = 2
  /\ cleanups[1].snapshot # {}
  /\ CleanupDone(cleanups[1])
  /\ CleanupDone(cleanups[2])
  /\ \A p \in cleanups[1].snapshot : deleteCalls[p] = 1

(* --------------------------------------------------------------- C14 *)
\* C14: exactly one delete is attempted for every path a call of
\* cleanupSessionFiles found in the session file set, whichever deletes have
\* failed; the call itself does not fail.
C14_AllDeletesAttempted ==
  /\ \A i \in 1..Len(cleanups) :
       /\ \A p \in cleanups[i].snapshot :
            p \in DOMAIN deleteCalls /\ deleteCalls[p] = 1
       /\ cleanups[i].failed \subseteq cleanups[i].snapshot
       /\ cleanups[i].failed \cap cleanups[i].pending = {}
       /\ ~ cleanups[i].raised
  /\ \A p \in DOMAIN deleteCalls : deleteCalls[p] = 1

\* a call over two paths finished although the delete of one of them failed
C14_Witness ==
  \E i \in 1..Len(cleanups) :
    /\ Cardinality(cleanups[i].snapshot) = 2
    /\ Cardinality(cleanups[i].failed) = 1
    /\ CleanupDone(cleanups[i])
    /\ sessionFiles = {}

(* --------------------------------------------------------------- C15 *)
UploadsNotSupported ==
  NativeError(<<"File uploads are not supported in this environment.">>)

\* C15: with the SDK loaded but its file storage absent, a send of the chat
\* path with an attachment ends, before any storage write or chat call, with
\* the uploads-not-supported error bubble in the display log and status
\* error, the API log and the session file set unchanged; a call of
\* cleanupSessionFiles changes nothing and does not fail.
C15_NoStorage ==
  [][ (puterLoaded /\ ~ fsPresent) =>
      /\ (/\ Len(flows') > Len(flows)
          /\ modelId # "video-generation"
          /\ Len(attachments) > 0) =>
           LET k == Len(flows')
               f == flows'[k]
           IN
           /\ f.pc = "failed"
           /\ f.thrown = UploadsNotSupported
           /\ f.writes = <<>>
           /\ f.nChat = 0
           /\ conversation' = conversation
           /\ sessionFiles' = sessionFiles
           /\ status' = "error"
           /\ Last(messages') = <<k, "err">>
           /\ heap'[<<k, "err">>] =
                Message("assistant",
                        StrContent(<<"Error: ">> \o UploadsNotSupported.message),
                        FALSE, <<>>, "")
      /\ \A k \in Flows : flows[k].pc = "failed" => flows'[k] = flows[k]
      /\ Len(cleanups') > Len(cleanups) =>
           /\ Last(cleanups') = NewCleanup({})
           /\ sessionFiles' = sessionFiles
           /\ deleteCalls' = deleteCalls
    ]_vars

\* without file storage a send with an attachment has failed and the user
\* has left the chat
C15_Witness ==
  /\ puterLoaded
  /\ ~ fsPresent
  /\ \E k \in Flows :
       /\ flows[k].pc = "failed"
       /\ flows[k].thrown = UploadsNotSupported
       /\ Len(flows[k].attachmentsToSend) > 0
  /\ Len(cleanups) > 0
  /\ sessionFiles = {}
  /\ deleteCalls = << >>

(* --------------------------------------------------------------- C16 *)
\* C16: with the SDK loaded and the model video-generation, every send has
\* called the video capability once and neither the chat capability nor a
\* storage write, with the trimmed text as prompt or, for an empty text,
\* "Video based on " and the first attachment's name; the step in which the
\* video call resolves appends an assistant message with the returned URL to
\* both logs and sets the status to ready.
C16_VideoPath ==
  [][ (puterLoaded /\ modelId = "video-generation") =>
      /\ \A k \in 1..Len(flows') :
           LET f == flows'[k] IN
           /\ f.nVideo = 1
           /\ f.nChat = 0
           /\ f.writes = <<>>
           /\ f.videoPrompt =
                IF f.textToSend # <<>> THEN f.textToSend
                ELSE << "Video based on ", f.attachmentsToSend[1].name >>
      /\ \A k \in Flows :
           (flows[k].pc = "vid" /\ flows'[k].pc = "done") =>
             /\ conversation' = Append(conversation, <<k, "vid">>)
             /\ messages' = Append(messages, <<k, "vid">>)
             /\ heap'[<<k, "vid">>].role = "assistant"
             /\ heap'[<<k, "vid">>].videoUrl \in VideoUrls
             /\ status' = "ready"
    ]_vars

\* a send with no text and cat.png as first of two attachments produced a video
C16_Witness ==
  /\ modelId = "video-generation"
  /\ \E k \in Flows :
       /\ flows[k].pc = "done"
       /\ flows[k].textToSend = <<>>
       /\ Len(flows[k].attachmentsToSend) = 2
       /\ flows[k].attachmentsToSend[1].name = "cat.png"
       /\ flows[k].attachmentsToSend[2].name # "cat.png"
       /\ flows[k].videoPrompt = << "Video based on ", "cat.png" >>
       /\ flows[k].nVideo = 1
       /\ <<k, "vid">> \in Range(conversation)
       /\ <<k, "vid">> \in Range(messages)
       /\ status = "ready"

(* --------------------------------------------------------------- C17 *)
IsLocal(a) == a.hasFile /\ a.puterPath = NoPath

IsUploaded(a) == ~ a.hasFile /\ a.puterPath # NoPath

\* the upload of turn k has completed: the chat call follows it at once
UploadComplete(k) == flows[k].nChat > 0

\* C17: no attachment record has both a file handle and a remote path, and
\* once the upload of a turn has completed every record of the upload result
\* and of the turn's display message is local or uploaded.
C17_LocalXorUploaded ==
  /\ \A i \in 1..Len(attachments) : ~ (attachments[i].hasFile
                                       /\ attachments[i].puterPath # NoPath)
  /\ \A k \in Flows :
       /\ \A a \in Range(flows[k].attachmentsToSend) \cup Range(flows[k].uploaded)
                     \cup Range(heap[<<k, "ud">>].attachments) :
            ~ (a.hasFile /\ a.puterPath # NoPath)
       /\ UploadComplete(k) =>
            \A a \in Range(flows[k].uploaded)
                       \cup Range(heap[<<k, "ud">>].attachments) :
              IsLocal(a) \/ IsUploaded(a)

(* --------------------------------------------------------------- C18 *)
\* C18: the step that processes a chat response that is not an async iterable
\* writes, as last entry of both logs, an assistant message whose content is
\* extractResponseText of that response, and sets the status to ready.
C18_NonStreamNormalized ==
  [][ \A k \in Flows :
        (flows[k].pc = "chat" /\ flows'[k].pc = "done") =>
          LET text == extractResponseText(flows'[k].response) IN
          /\ Last(conversation') = <<k, "fin">>
          /\ Last(messages') = <<k, "fin">>
          /\ heap'[<<k, "fin">>].role = "assistant"
          /\ text.t = "string"
          /\ heap'[<<k, "fin">>].content = StrContent(text.s)
          /\ status' = "ready"
    ]_vars

(* --------------------------------------------------------------- C20 *)
\* a send of the chat path that has neither received a first chunk, nor had
\* its response processed, nor failed
AwaitingAnswer(k) ==
  \/ flows[k].pc \in { "write", "chat" }
  \/ flows[k].pc = "stream" /\ flows[k].chunks = <<>>

\* C20: while a send of the chat path waits for its first chunk or its
\* response, the status is thinking, also when the timer of an earlier failed
\* send is pending.
C20_ThinkingUntilAnswer ==
  \A k \in Flows : AwaitingAnswer(k) => status = "thinking"

(* --------------------------------------------------------------- C21 *)
\* log2 is log with turn k's placeholder, and nothing else, replaced by turn
\* k's final message
PlaceholderReplaced(log, log2, k) ==
  \E i \in 1..Len(log) :
    /\ log[i] = <<k, "ph">>
    /\ log2 = [log EXCEPT ![i] = <<k, "fin">>]

\* C21: the step that completes a send of the chat path puts, in both logs, an
\* assistant message with the accumulated content and no streaming flag at
\* the position of that turn's own placeholder, and changes no other entry
\* and no length.
C21_OwnPlaceholderReplaced ==
  [][ \A k \in Flows :
        /\ (flows[k].pc = "stream" /\ flows'[k].pc = "done") =>
             /\ PlaceholderReplaced(conversation, conversation', k)
             /\ PlaceholderReplaced(messages, messages', k)
             /\ heap'[<<k, "fin">>] =
                  Message("assistant", StrContent(flows[k].fullContent),
                          FALSE, <<>>, "")
             /\ \A id \in Range(conversation) \cup Range(messages) :
                  id # <<k, "ph">> => heap'[id] = heap[id]
        /\ (flows[k].pc = "chat" /\ flows'[k].pc = "done") =>
             /\ conversation' = Append(conversation, <<k, "fin">>)
             /\ messages' = Append(messages, <<k, "fin">>)
             /\ heap'[<<k, "fin">>] =
                  Message("assistant", StrContent(flows'[k].fullContent),
                          FALSE, <<>>, "")
             /\ \A id \in Range(conversation) \cup Range(messages) :
                  heap'[id] = heap[id]
    ]_vars

(* --------------------------------------------------------------- C27 *)
\* every user message of log is at the same position of log2, unchanged
UserMessagesKept(log, log2) ==
  \A i \in 1..Len(log) :
    heap[log[i]].role = "user" =>
      /\ i <= Len(log2)
      /\ log2[i] = log[i]
      /\ heap'[log[i]] = heap[log[i]]

\* C27: no step removes or overwrites a user message of the display log or
\* of the API log.
C27_UserMessagesStay ==
  [][ /\ UserMessagesKept(messages, messages')
      /\ UserMessagesKept(conversation, conversation') ]_vars

(* --------------------------------------------------------------- C28 *)
\* the roles of log are user, assistant, user, ..., user
Alternates(log) ==
  /\ Len(log) % 2 = 1
  /\ \A i \in 1..Len(log) :
       heap[log[i]].role = IF i % 2 = 1 THEN "user" ELSE "assistant"

\* C28: the API log handed to the chat capability alternates roles strictly,
\* from a user message to the current turn's user message.
C28_ChatArgAlternates ==
  \A k \in Flows :
    flows[k].nChat > 0 =>
      /\ Alternates(flows[k].chatArg)
      /\ Last(flows[k].chatArg) = <<k, "ua">>

(* --------------------------------------------------------------- C29 *)
\* C29: when every capability call returns, every accepted send is followed
\* by a state in which it is over and the status is ready.
C29_SendEndsReady ==
  \A k \in 1..MaxSends :
    (Len(flows) >= k) ~> (Len(flows) >= k /\ ~ InFlight(k) /\ status = "ready")

(* --------------------------------------------------------------- C22 *)
\* what C22 says of a step; failedAtOnce tells whether a send that has failed
\* before its first capability call may show status error right after its
\* start
SnapshotStep(failedAtOnce) ==
  /\ Len(flows') > Len(flows) =>
       LET k == Len(flows') IN
       /\ flows'[k].textToSend = Trim(input)
       /\ flows'[k].attachmentsToSend = attachments
       /\ heap'[<<k, "ud">>] = userMessageDisplay(Trim(input), attachments)
       /\ input' = <<>>
       /\ attachments' = <<>>
       /\ status' = IF failedAtOnce /\ flows'[k].pc = "failed"
                     THEN "error" ELSE "thinking"
  /\ \A k \in Flows :
       /\ flows'[k].textToSend = flows[k].textToSend
       /\ flows'[k].attachmentsToSend = flows[k].attachmentsToSend
       /\ heap'[<<k, "ud">>] = heap[<<k, "ud">>]
       /\ Len(flows'[k].uploaded) <= Len(flows[k].attachmentsToSend)
       /\ \A i \in 1..Len(flows'[k].uploaded) :
            flows'[k].uploaded[i].id = flows[k].attachmentsToSend[i].id
       /\ <<k, "ua">> \in DOMAIN heap' =>
            heap'[<<k, "ua">>].content =
              buildUserMessageContent(flows[k].textToSend, flows'[k].uploaded)
       /\ flows'[k] # flows[k] => (input' = input /\ attachments' = attachments)

\* C22 as stated: right after the start of a send the status is thinking.
C22_SnapshotThinking == [][ SnapshotStep(FALSE) ]_vars

\* C22, amended: a send works on the input text and pending attachments it
\* found when it started; right after the start both are empty and the
\* status is thinking, or error when the send has failed before its first
\* capability call; what is typed or attached while the send is in flight
\* enters neither its display message, nor its uploads, nor its API message,
\* and no step of the send touches it.
C22_Snapshot == [][ SnapshotStep(TRUE) ]_vars

\* the latest send waits for its chat call, with its own text and attachment
\* in the API message, while new text and a new attachment are pending
C22_Witness ==
  /\ Len(flows) > 0
  /\ flows[Len(flows)].pc = "chat"
  /\ Len(flows[Len(flows)].attachmentsToSend) = 1
  /\ Trim(input) # <<>>
  /\ Len(attachments) = 1
  /\ attachments[1].id # flows[Len(flows)].attachmentsToSend[1].id
  /\ heap[<<Len(flows), "ua">>].content =
       buildUserMessageContent(flows[Len(flows)].textToSend,
                               flows[Len(flows)].uploaded)

(* --------------------------------------------------------------- C24 *)
\* C24: the writes of one upload are made one at a time in input order, one
\* per attachment; the i-th record of the result is the i-th attachment with
\* the path of the i-th write and without file handle; every path a write
\* has returned is in the session file set, also after a later write of the
\* same upload has failed.
C24_UploadInOrder ==
  \A k \in Flows :
    LET f == flows[k] IN
    /\ Len(f.uploaded) = Len(f.writes)
    /\ Len(f.writes) <= Len(f.attachmentsToSend)
    /\ \A i \in 1..Len(f.uploaded) :
         /\ f.uploaded[i].id = f.attachmentsToSend[i].id
         /\ f.uploaded[i].name = f.attachmentsToSend[i].name
         /\ ~ f.uploaded[i].hasFile
         /\ f.uploaded[i].puterPath = f.writes[i]
         /\ f.writes[i] # NoPath
         /\ f.writes[i] \in sessionFiles
    /\ \A i, j \in 1..Len(f.writes) : i # j => f.writes[i] # f.writes[j]
    /\ f.pc = "write" => f.upIdx = Len(f.writes) + 1
                         /\ f.upIdx <= Len(f.attachmentsToSend)
    /\ f.nChat > 0 => Len(f.writes) = Len(f.attachmentsToSend)

\* the second write of an upload failed; the path of the first is tracked
C24_Witness ==
  \E k \in Flows :
    /\ flows[k].pc = "failed"
    /\ flows[k].failedAt = "write"
    /\ Len(flows[k].attachmentsToSend) = 2
    /\ Len(flows[k].writes) = 1
    /\ flows[k].writes[1] \in sessionFiles

(* --------------------------------------------------------------- C26 *)
\* the text the specification's order picks for a thrown value; <<>> where
\* the order names none
ClaimErrorText(e) ==
  IF e.t = "Error" THEN e.message
  ELSE IF e.t = "string" THEN e.raw
  ELSE IF e.t \in { "object", "circular" } /\ e.nested # <<>> THEN e.nested
  ELSE IF e.t \in { "object", "circular" } /\ e.message # <<>> THEN e.message
  ELSE IF e.t = "object" THEN e.raw
  ELSE <<>>

\* the order of the specification names a text for e
ClaimNamesText(e) ==
  \/ e.t \in { "Error", "string", "object" }
  \/ e.t = "circular" /\ (e.nested # <<>> \/ e.message # <<>>)

\* C26: the step in which a send takes the error path appends exactly one
\* assistant message to the display log, whose text is "Error: " followed by
\* the native error's message, else the nested error.message, else the
\* message field, else the JSON text of an object, else the thrown string;
\* it sets the status to error, and for every thrown value the bubble is
\* appended and the send is over for good.
C26_ErrorBubble ==
  [][ /\ \A k \in 1..Len(flows') :
           Fails(k) =>
             LET e == flows'[k].thrown
                 bubble == heap'[<<k, "err">>]
             IN
             /\ Last(messages') = <<k, "err">>
             /\ Len(messages') = Len(messages) + (IF k \in Flows THEN 1 ELSE 2)
             /\ <<k, "err">> \notin Range(messages)
             /\ bubble.role = "assistant"
             /\ bubble.content.t = "string"
             /\ Head(bubble.content.s) = "Error: "
             /\ ClaimNamesText(e) =>
                  bubble.content.s = <<"Error: ">> \o ClaimErrorText(e)
             /\ status' = "error"
             /\ ~ InFlight(k)'
      /\ \A k \in Flows : flows[k].pc = "failed" => flows'[k] = flows[k]
    ]_vars

\* an object with both a nested error.message and a message was thrown and
\* the bubble shows the nested one
C26_Witness ==
  \E k \in Flows :
    /\ flows[k].pc = "failed"
    /\ flows[k].thrown.t = "object"
    /\ flows[k].thrown.nested = <<"n">>
    /\ flows[k].thrown.message = <<"m">>
    /\ heap[<<k, "err">>].content = StrContent(<< "Error: ", "n" >>)
    /\ Last(messages) = <<k, "err">>

(* --------------------------------------------------------------- C23 *)
PendingIds == { attachments[i].id : i \in 1..Len(attachments) }

\* log2 is log followed by valid, local, newly created attachments
ValidExtension(log, log2) ==
  /\ Len(log2) > Len(log)
  /\ SubSeq(log2, 1, Len(log)) = log
  /\ \A i \in (Len(log) + 1)..Len(log2) :
       /\ log2[i].type \in allowedTypes
       /\ log2[i].size <= maxSize
       /\ log2[i].id >= nextAttId
       /\ i <= maxCount

\* C23: in every state the pending collection holds at most maxCount
\* attachments, all of an allowed type and size; an add appends exactly the
\* files the validation accepts against the running count, so that the
\* collection stays within maxCount and an add whose files are all rejected
\* appends nothing; the collection changes only by such an extension, by a
\* removal or by the clearing of a send.
C23_CollectionValid ==
  [][ /\ Len(attachments') <= maxCount
      /\ \A i \in 1..Len(attachments') :
           /\ attachments'[i].type \in allowedTypes
           /\ attachments'[i].size <= maxSize
           /\ \A j \in 1..Len(attachments') :
                i # j => attachments'[i].id # attachments'[j].id
      /\ (attachments' # attachments \/ attachments = <<>>) =>
           \A files \in FileBatches :
             LET additions == Additions(files, Len(attachments), nextAttId)
                 accepted == ClaimAccepted(files, Len(attachments))
             IN
             /\ Len(additions) = Len(accepted)
             /\ \A i \in 1..Len(additions) : additions[i].name = accepted[i].name
             /\ Len(attachments) + Len(additions) <= maxCount
      /\ attachments' # attachments =>
           \/ attachments' = <<>> /\ Len(flows') > Len(flows)
           \/ \E id \in PendingIds :
                attachments' = SelectSeq(attachments, LAMBDA a : a.id # id)
           \/ ValidExtension(attachments, attachments')
    ]_vars

\* the collection is full, with files of both valid kinds
C23_Witness ==
  /\ Len(attachments) = maxCount
  /\ \E i, j \in 1..maxCount : attachments[i].type # attachments[j].type

(* --------------------------------------------------------------- C25 *)
\* position of the attachment with this id in the pending collection
PendingPos(log, id) == CHOOSE i \in 1..Len(log) : log[i].id = id

\* C25: removeAttachment(id) for a pending id yields the collection without
\* that attachment, the others unchanged and in the same order, and releases
\* the attachment's preview URL if it has one; for an id that is not pending
\* it yields the same collection and releases nothing; the step that removes
\* an attachment leaves display log, API log, message objects, status and
\* session file set as they are.
C25_RemoveFrame ==
  [][ /\ \A id \in 1..MaxAttachIds :
           LET rest == WithoutAttachment(attachments, id) IN
           IF id \in PendingIds
           THEN LET p == PendingPos(attachments, id) IN
                /\ Len(rest) = Len(attachments) - 1
                /\ \A i \in 1..Len(rest) :
                     rest[i] = attachments[IF i < p THEN i ELSE i + 1]
                /\ RevokedBy(id) =
                     IF attachments[p].previewUrl # 0
                     THEN { attachments[p].previewUrl } ELSE {}
           ELSE rest = attachments /\ RevokedBy(id) = {}
      /\ (flows' = flows /\ Len(attachments') < Len(attachments)) =>
           /\ \E id \in PendingIds :
                /\ attachments' = WithoutAttachment(attachments, id)
                /\ revoked' = revoked \cup RevokedBy(id)
           /\ UNCHANGED << messages, conversation, heap, status, sessionFiles,
                           input >>
      /\ revoked \subseteq revoked'
      /\ \A i \in 1..Len(attachments') :
           attachments'[i].previewUrl # 0 =>
             attachments'[i].previewUrl \notin revoked'
    ]_vars

\* the middle one of three attachments, an image, has been removed and its
\* preview URL released
C25_Witness ==
  /\ Len(attachments) = 2
  /\ \E id \in 1..MaxAttachIds :
       /\ attachments[1].id < id
       /\ id < attachments[2].id
       /\ id \in revoked

====
